---- MODULE Spec2Model ----
(***************************************************************************)
(* Verification Code Service of purchase-backend/server.js: the Code Store *)
(* (codes), the Rate Limiter (sendCounts), the send-code and verify-code   *)
(* handlers and the periodic cleanup timer.  Time is Date.now() in         *)
(* milliseconds.  A send-code handler is two steps, split at its only      *)
(* await (sendMail); verify-code and the cleanup callback are synchronous  *)
(* and run as one step each.                                               *)
(***************************************************************************)
EXTENDS Integers, Sequences, FiniteSets, Bags

(* ------------------------------ bounds --------------------------------- *)

\* Cap on the sends of one email that are recorded or awaiting dispatch.
MaxSends == 5

\* The instants (minutes since start) at which the clock is observed.
InstantMinutes == {0, 15, 60, 61}

Instants == {m * 60 * 1000 : m \in InstantMinutes}

\* Values of Math.floor(Math.random() * 900000) the model draws.
RandomDraws == {0, 382913}

(* --------------------------- configuration ----------------------------- *)

RATE_LIMIT_PER_HOUR == 3

CODE_TTL_MINUTES == 15

\* Inputs for the email field; isEmail is the validator library's predicate.
EmailInputs == {"a@b.com", "not-an-email", ""}

isEmail(email) == email \in {"a@b.com"}

(* ------------------------------ strings -------------------------------- *)
\* A JS string is a sequence of one-character strings.

Digits == <<"0", "1", "2", "3", "4", "5", "6", "7", "8", "9">>

RECURSIVE NumberToString(_)
\* Number.prototype.toString for a non-negative integer.
NumberToString(n) ==
    IF n < 10 THEN <<Digits[n + 1]>>
    ELSE Append(NumberToString(n \div 10), Digits[(n % 10) + 1])

WhiteSpace == {" ", "\t", "\n"}

RECURSIVE TrimStart(_)
TrimStart(s) ==
    IF s # <<>> /\ Head(s) \in WhiteSpace THEN TrimStart(Tail(s)) ELSE s

RECURSIVE TrimEnd(_)
TrimEnd(s) ==
    IF s # <<>> /\ s[Len(s)] \in WhiteSpace
    THEN TrimEnd(SubSeq(s, 1, Len(s) - 1)) ELSE s

\* String.prototype.trim
Trim(s) == TrimEnd(TrimStart(s))

\* A JSON value of the request body: a string, a number, or absent.
Str(s) == [t |-> "string", v |-> s]

Num(n) == [t |-> "number", v |-> n]

Undefined == [t |-> "undefined", v |-> 0]

\* !v of JavaScript
Falsy(v) ==
    \/ v.t = "undefined"
    \/ v.t = "string" /\ v.v = <<>>
    \/ v.t = "number" /\ v.v = 0

\* String(v) of JavaScript
String(v) ==
    IF v.t = "number" THEN NumberToString(v.v)
    ELSE IF v.t = "string" THEN v.v
    ELSE <<"u", "n", "d", "e", "f", "i", "n", "e", "d">>

\* generateCode with r = Math.floor(Math.random() * 900000)
generateCode(r) == NumberToString(100000 + r)

GeneratedCodes == {generateCode(r) : r \in RandomDraws}

\* Inputs for the code field of verify-code.
CodeInputs ==
    {Str(c) : c \in GeneratedCodes}
    \cup {Str(<<" ">> \o generateCode(382913) \o <<"\n">>), Num(100000)}
    \cup {Str(<<" ">>), Str(<<>>), Undefined}

(* ------------------------------- state --------------------------------- *)

VARIABLES
    now,         \* Date.now()
    codes,       \* Map email -> [code, expiresAt]
    sendCounts,  \* Map email -> sequence of send timestamps
    inflight,    \* bag of send-code handlers suspended at await sendMail
    resp,        \* the response most recently written
    before       \* history: codes as the suspended send-code handler found
                 \* it, kept while that handler is the only one suspended

vars == <<now, codes, sendCounts, inflight, resp, before>>

\* State of the payment service (server.js), a separate process.
VARIABLES
    variant,       \* which server.js is deployed: "memory" or "gateway"
    transactions,  \* object tx_ref -> transaction record
    fetching,      \* bag of create-transaction handlers suspended at await fetch
    payResp        \* the response the payment service most recently wrote

payVars == <<variant, transactions, fetching, payResp>>

\* Map helpers (Map.prototype.has/set/delete)
Has(m, k) == k \in DOMAIN m

MapSet(m, k, v) == [x \in DOMAIN m \cup {k} |-> IF x = k THEN v ELSE m[x]]

MapDelete(m, k) == [x \in DOMAIN m \ {k} |-> m[x]]

EmptyMap == <<>>

\* Value of the history variable while it follows no handler.
Untracked == [x \in {"untracked"} |-> <<>>]

Response(op, status, body) == [op |-> op, status |-> status, body |-> body]

NoResponse == Response("none", 0, "")

NoPayResponse == Response("none", 0, [none |-> TRUE])

Init ==
    /\ now = 0
    /\ codes = EmptyMap
    /\ sendCounts = EmptyMap
    /\ inflight = EmptyBag
    /\ resp = NoResponse
    /\ before = EmptyMap
    /\ variant = "memory"
    /\ transactions = EmptyMap
    /\ fetching = EmptyBag
    /\ payResp = NoPayResponse

(* ---------------------------- rate limiter ----------------------------- *)

\* arr.filter(t => t > bound)
RECURSIVE FilterAfter(_, _)
FilterAfter(arr, bound) ==
    IF arr = <<>> THEN <<>>
    ELSE IF Head(arr) > bound
         THEN <<Head(arr)>> \o FilterAfter(Tail(arr), bound)
         ELSE FilterAfter(Tail(arr), bound)

\* canSend that still counts a timestamp exactly 60 minutes old.
canSendCountsBoundary(email) ==
    LET windowStart == now - 60 * 60 * 1000
        arr == IF Has(sendCounts, email) THEN sendCounts[email] ELSE <<>>
        recent == FilterAfter(arr, windowStart - 1)
    IN  Len(recent) < RATE_LIMIT_PER_HOUR

\* canSend with the comparison against the threshold made inclusive.
canSendInclusive(email) ==
    LET windowStart == now - 60 * 60 * 1000
        arr == IF Has(sendCounts, email) THEN sendCounts[email] ELSE <<>>
        recent == FilterAfter(arr, windowStart)
    IN  Len(recent) <= RATE_LIMIT_PER_HOUR

canSend(email) ==
    LET windowStart == now - 60 * 60 * 1000
        arr == IF Has(sendCounts, email) THEN sendCounts[email] ELSE <<>>
        recent == FilterAfter(arr, windowStart)
    IN  Len(recent) < RATE_LIMIT_PER_HOUR

\* the value of sendCounts after recordSend(email)
recordSend(email) ==
    LET arr == IF Has(sendCounts, email) THEN sendCounts[email] ELSE <<>>
    IN  MapSet(sendCounts, email, Append(arr, now))

(* ------------------------------ send-code ------------------------------ *)

\* Number of sends of email recorded or awaiting dispatch.
Pressure(email) ==
    (IF Has(sendCounts, email) THEN Len(sendCounts[email]) ELSE 0)
    + BagCardinality(inflight)

\* A suspended handler: its locals.
Request(email, code) == [email |-> email, code |-> code]

\* send-code that writes the store only when the email has no entry.
SendCodeKeepsOld(email, r) ==
    IF email = "" \/ ~isEmail(email)
    THEN /\ resp' = Response("send", 400, "Valid email required")
         /\ UNCHANGED <<now, codes, sendCounts, inflight, before>>
    ELSE IF ~canSend(email)
    THEN /\ resp' = Response("send", 429, "Rate limit: max 3 codes per hour")
         /\ UNCHANGED <<now, codes, sendCounts, inflight, before>>
    ELSE /\ Pressure(email) < MaxSends
         /\ LET code == generateCode(r)
                expiresAt == now + CODE_TTL_MINUTES * 60 * 1000
            IN  /\ codes' = IF Has(codes, email) THEN codes
                            ELSE MapSet(codes, email,
                                   [code |-> code, expiresAt |-> expiresAt])
                /\ inflight' = inflight (+) SetToBag({Request(email, code)})
         /\ before' = IF inflight = EmptyBag THEN codes ELSE Untracked
         /\ UNCHANGED <<now, sendCounts, resp>>

\* send-code that generates and stores the code before the rate-limit gate.
SendCodeStoresFirst(email, r) ==
    IF email = "" \/ ~isEmail(email)
    THEN /\ resp' = Response("send", 400, "Valid email required")
         /\ UNCHANGED <<now, codes, sendCounts, inflight, before>>
    ELSE LET code == generateCode(r)
             expiresAt == now + CODE_TTL_MINUTES * 60 * 1000
         IN  IF ~canSend(email)
             THEN /\ codes' = MapSet(codes, email,
                                     [code |-> code, expiresAt |-> expiresAt])
                  /\ resp' = Response("send", 429,
                                      "Rate limit: max 3 codes per hour")
                  /\ UNCHANGED <<now, sendCounts, inflight, before>>
             ELSE /\ Pressure(email) < MaxSends
                  /\ codes' = MapSet(codes, email,
                                     [code |-> code, expiresAt |-> expiresAt])
                  /\ inflight' = inflight (+) SetToBag({Request(email, code)})
                  /\ before' = IF inflight = EmptyBag THEN codes ELSE Untracked
                  /\ UNCHANGED <<now, sendCounts, resp>>

\* POST /api/send-code up to the await: validation, rate-limit gate,
\* code generation and store write.
SendCode(email, r) ==
    IF email = "" \/ ~isEmail(email)
    THEN /\ resp' = Response("send", 400, "Valid email required")
         /\ UNCHANGED <<now, codes, sendCounts, inflight, before>>
    ELSE IF ~canSend(email)
    THEN /\ resp' = Response("send", 429, "Rate limit: max 3 codes per hour")
         /\ UNCHANGED <<now, codes, sendCounts, inflight, before>>
    ELSE /\ Pressure(email) < MaxSends
         /\ LET code == generateCode(r)
                expiresAt == now + CODE_TTL_MINUTES * 60 * 1000
            IN  /\ codes' = MapSet(codes, email,
                                   [code |-> code, expiresAt |-> expiresAt])
                /\ inflight' = inflight (+) SetToBag({Request(email, code)})
         /\ before' = IF inflight = EmptyBag THEN codes ELSE Untracked
         /\ UNCHANGED <<now, sendCounts, resp>>

\* The history is kept for a handler that is suspended alone: it is
\* Untracked while several overlap, and dropped when the last completes.
BeforeAfter(req) ==
    IF inflight = SetToBag({req}) THEN EmptyMap ELSE before

\* send-code that writes the store when the dispatch has completed.
SendMailOkStoresAfter(req) ==
    /\ BagIn(req, inflight)
    /\ inflight' = inflight (-) SetToBag({req})
    /\ codes' = MapSet(codes, req.email,
                       [code |-> req.code,
                        expiresAt |-> now + CODE_TTL_MINUTES * 60 * 1000])
    /\ sendCounts' = recordSend(req.email)
    /\ resp' = Response("send", 200, "Verification email sent")
    /\ before' = BeforeAfter(req)
    /\ UNCHANGED now

\* A 200 response that also carries the generated code.
SendMailOkEchoesCode(req) ==
    /\ BagIn(req, inflight)
    /\ inflight' = inflight (-) SetToBag({req})
    /\ sendCounts' = recordSend(req.email)
    /\ resp' = [op |-> "send", status |-> 200,
                body |-> "Verification email sent", code |-> req.code]
    /\ before' = BeforeAfter(req)
    /\ UNCHANGED <<now, codes>>

\* sendMail resolved: recordSend and the 200 response.
SendMailOk(req) ==
    /\ BagIn(req, inflight)
    /\ inflight' = inflight (-) SetToBag({req})
    /\ sendCounts' = recordSend(req.email)
    /\ resp' = Response("send", 200, "Verification email sent")
    /\ before' = BeforeAfter(req)
    /\ UNCHANGED <<now, codes>>

\* A catch block that is reached after recordSend.
SendMailFailRecords(req) ==
    /\ BagIn(req, inflight)
    /\ inflight' = inflight (-) SetToBag({req})
    /\ sendCounts' = recordSend(req.email)
    /\ resp' = Response("send", 500, "Failed to send code")
    /\ before' = BeforeAfter(req)
    /\ UNCHANGED <<now, codes>>

\* sendMail threw (missing credentials, provider or relay failure): the
\* catch block answers 500.
SendMailFail(req) ==
    /\ BagIn(req, inflight)
    /\ inflight' = inflight (-) SetToBag({req})
    /\ resp' = Response("send", 500, "Failed to send code")
    /\ before' = BeforeAfter(req)
    /\ UNCHANGED <<now, codes, sendCounts>>

(* ----------------------------- verify-code ----------------------------- *)

\* verify-code that compares the code before it looks at the expiry.
VerifyResponseCodeFirst(email, code) ==
    IF email = "" \/ ~isEmail(email) \/ Falsy(code)
    THEN Response("verify", 400, "Email and code required")
    ELSE IF ~Has(codes, email)
    THEN Response("verify", 400, "No code found or code expired")
    ELSE IF codes[email].code # Trim(String(code))
    THEN Response("verify", 400, "Invalid code")
    ELSE IF codes[email].expiresAt < now
    THEN Response("verify", 400, "Code expired")
    ELSE Response("verify", 200, "Email verified")

\* The response POST /api/verify-code writes in the current state.
VerifyResponse(email, code) ==
    IF email = "" \/ ~isEmail(email) \/ Falsy(code)
    THEN Response("verify", 400, "Email and code required")
    ELSE IF ~Has(codes, email)
    THEN Response("verify", 400, "No code found or code expired")
    ELSE IF codes[email].expiresAt < now
    THEN Response("verify", 400, "Code expired")
    ELSE IF codes[email].code # Trim(String(code))
    THEN Response("verify", 400, "Invalid code")
    ELSE Response("verify", 200, "Email verified")

\* verify-code without the delete on success.
VerifyCodeKeepsUsed(email, code) ==
    /\ resp' = VerifyResponse(email, code)
    /\ codes' = IF resp'.body \in {"Code expired"}
                THEN MapDelete(codes, email)
                ELSE codes
    /\ UNCHANGED <<now, sendCounts, inflight, before>>

\* verify-code that also deletes the entry on a mismatch.
VerifyCodeDropsOnMismatch(email, code) ==
    /\ resp' = VerifyResponse(email, code)
    /\ codes' = IF resp'.body \in {"Code expired", "Email verified", "Invalid code"}
                THEN MapDelete(codes, email)
                ELSE codes
    /\ UNCHANGED <<now, sendCounts, inflight, before>>

\* verify-code without the delete on the expired branch.
VerifyCodeKeepsExpired(email, code) ==
    /\ resp' = VerifyResponse(email, code)
    /\ codes' = IF resp'.body \in {"Email verified"}
                THEN MapDelete(codes, email)
                ELSE codes
    /\ UNCHANGED <<now, sendCounts, inflight, before>>

\* POST /api/verify-code: the entry is deleted on the expired branch and
\* on success.
VerifyCode(email, code) ==
    /\ resp' = VerifyResponse(email, code)
    /\ codes' = IF resp'.body \in {"Code expired", "Email verified"}
                THEN MapDelete(codes, email)
                ELSE codes
    /\ UNCHANGED <<now, sendCounts, inflight, before>>

(* ------------------------------- reaper -------------------------------- *)

\* A sweep that stores the pruned array even when it is empty.
CleanupKeepsEmpty ==
    /\ codes' = [e \in {x \in DOMAIN codes : ~(codes[x].expiresAt <= now)}
                    |-> codes[e]]
    /\ LET recent(e) == FilterAfter(sendCounts[e], now - 1000 * 3600)
       IN  sendCounts' = [e \in DOMAIN sendCounts |-> recent(e)]
    /\ UNCHANGED <<now, inflight, resp, before>>

\* The sweep without its pass over the Code Store.
CleanupSkipsCodes ==
    /\ LET recent(e) == FilterAfter(sendCounts[e], now - 1000 * 3600)
       IN  sendCounts' = [e \in {x \in DOMAIN sendCounts : Len(recent(x)) # 0}
                             |-> recent(e)]
    /\ UNCHANGED <<now, codes, inflight, resp, before>>

\* The sweep deleting a record as soon as one of its timestamps is old.
CleanupDropsStaleRecord ==
    /\ codes' = [e \in {x \in DOMAIN codes : ~(codes[x].expiresAt <= now)}
                    |-> codes[e]]
    /\ LET recent(e) == FilterAfter(sendCounts[e], now - 1000 * 3600)
       IN  sendCounts' = [e \in {x \in DOMAIN sendCounts :
                                    recent(x) = sendCounts[x]}
                             |-> recent(e)]
    /\ UNCHANGED <<now, inflight, resp, before>>

\* The setInterval callback.
Cleanup ==
    /\ codes' = [e \in {x \in DOMAIN codes : ~(codes[x].expiresAt <= now)}
                    |-> codes[e]]
    /\ LET recent(e) == FilterAfter(sendCounts[e], now - 1000 * 3600)
       IN  sendCounts' = [e \in {x \in DOMAIN sendCounts : Len(recent(x)) # 0}
                             |-> recent(e)]
    /\ UNCHANGED <<now, inflight, resp, before>>

(* -------------------------------- clock -------------------------------- *)

Tick ==
    /\ \E t \in Instants : t > now /\ now' = t
    /\ UNCHANGED <<codes, sendCounts, inflight, resp, before>>

(* --------------------------- payment service --------------------------- *)

\* Cap on the create-transaction handlers awaiting the gateway at once.
MaxFetching == 2

Variants == {"memory", "gateway"}

\* References `TX-${Date.now()}-${random}` the in-memory variant draws.
GeneratedRefs == {"TX-0-1", "TX-0-2"}

\* tx_ref fields of request bodies; "" stands for a missing field.
TxRefInputs == GeneratedRefs \cup {""}

\* status fields of confirm-transaction bodies; "" stands for a missing one.
StatusInputs == {"", "successful", "failed"}

\* Bodies of create-transaction, in-memory variant.
CreateBodies ==
    [amount : {0, 100}, recipientEmail : {"", "r@x.com"}, currency : {"NGN"}]

\* Bodies of create-transaction, gateway variant.
GatewayBodies ==
    [email : {"", "p@x.com"}, name : {"N"}, amount : {100}, currency : {"NGN"},
     tx_ref : TxRefInputs, recipient : {"R"}]

\* What response.json() of the gateway can resolve to.
GatewayData ==
    { [status |-> "success", data |-> [link |-> "https://pay/link"]],
      [status |-> "success"],
      [status |-> "error"] }

\* POST /create-transaction of the in-memory variant; tx_ref is the
\* reference the handler generates.
CreateTransaction(body, tx_ref) ==
    /\ variant = "memory"
    /\ IF body.amount = 0 \/ body.recipientEmail = "" \/ body.currency = ""
       THEN /\ payResp' = Response("create", 400,
                                   [error |-> "Missing required fields"])
            /\ transactions' = transactions
       ELSE /\ transactions' =
                MapSet(transactions, tx_ref,
                       [recipientEmail |-> body.recipientEmail,
                        amount |-> body.amount, currency |-> body.currency,
                        status |-> "pending"])
            /\ payResp' = Response("create", 200,
                                   [tx_ref |-> tx_ref,
                                    recipientEmail |-> body.recipientEmail])
    /\ UNCHANGED <<variant, fetching>>

\* POST /create-transaction of the gateway variant, up to its await fetch.
CreateTransactionFetch(body) ==
    /\ variant = "gateway"
    /\ IF body.email = "" \/ body.amount = 0 \/ body.currency = ""
          \/ body.tx_ref = ""
       THEN /\ payResp' = Response("create", 400,
                                   [error |-> "Missing required fields"])
            /\ fetching' = fetching
       ELSE /\ BagCardinality(fetching) < MaxFetching
            /\ fetching' = fetching (+) SetToBag({body})
            /\ payResp' = payResp
    /\ UNCHANGED <<variant, transactions>>

\* The gateway answered with data: the rest of the try block.
FetchResolves(body, data) ==
    /\ BagIn(body, fetching)
    /\ fetching' = fetching (-) SetToBag({body})
    /\ IF data.status # "success"
       THEN /\ payResp' = Response("create", 500,
                                   [error |-> "Failed to create payment link"])
            /\ transactions' = transactions
       ELSE /\ transactions' =
                MapSet(transactions, body.tx_ref,
                       [email |-> body.email, name |-> body.name,
                        amount |-> body.amount, currency |-> body.currency,
                        recipient |-> body.recipient, status |-> "pending"])
            /\ payResp' = IF "data" \in DOMAIN data
                          THEN Response("create", 200, [link |-> data.data.link])
                          ELSE Response("create", 500, [error |-> "Server error"])
    /\ UNCHANGED variant

\* fetch or response.json() threw: the catch block.
FetchRejects(body) ==
    /\ BagIn(body, fetching)
    /\ fetching' = fetching (-) SetToBag({body})
    /\ payResp' = Response("create", 500, [error |-> "Server error"])
    /\ UNCHANGED <<variant, transactions>>

\* confirm-transaction that records the status of a reference it never saw.
ConfirmTransactionUpserts(tx_ref, status) ==
    /\ IF tx_ref = "" \/ status = ""
       THEN /\ payResp' = Response("confirm", 400,
                                   [error |-> "Missing required fields"])
            /\ transactions' = transactions
       ELSE /\ transactions' =
                IF Has(transactions, tx_ref)
                THEN [transactions EXCEPT ![tx_ref].status = status]
                ELSE MapSet(transactions, tx_ref, [status |-> status])
            /\ payResp' = Response("confirm", 200, [success |-> TRUE])
    /\ UNCHANGED <<variant, fetching>>

\* POST /confirm-transaction, the same in both variants.
ConfirmTransaction(tx_ref, status) ==
    /\ IF tx_ref = "" \/ status = ""
       THEN /\ payResp' = Response("confirm", 400,
                                   [error |-> "Missing required fields"])
            /\ transactions' = transactions
       ELSE /\ transactions' =
                IF Has(transactions, tx_ref)
                THEN [transactions EXCEPT ![tx_ref].status = status]
                ELSE transactions
            /\ payResp' = Response("confirm", 200, [success |-> TRUE])
    /\ UNCHANGED <<variant, fetching>>

(* ---------------------------- specification ---------------------------- *)

Next ==
    \/ \E email \in EmailInputs, r \in RandomDraws :
           SendCode(email, r) /\ UNCHANGED payVars
    \/ \E req \in BagToSet(inflight) : SendMailOk(req) /\ UNCHANGED payVars
    \/ \E req \in BagToSet(inflight) : SendMailFail(req) /\ UNCHANGED payVars
    \/ \E email \in EmailInputs, code \in CodeInputs :
           VerifyCode(email, code) /\ UNCHANGED payVars
    \/ Cleanup /\ UNCHANGED payVars
    \/ Tick /\ UNCHANGED payVars

Spec == Init /\ [][Next]_vars

allVars == <<vars, payVars>>

\* The clock keeps advancing and the setInterval callback keeps being run.
SpecLive ==
    /\ Init
    /\ [][Next]_vars
    /\ WF_allVars(Tick /\ UNCHANGED payVars)
    /\ WF_allVars(Cleanup /\ UNCHANGED payVars)

\* The payment service starts with an empty transactions object.
InitPay ==
    /\ variant \in Variants
    /\ transactions = EmptyMap
    /\ fetching = EmptyBag
    /\ payResp = NoPayResponse
    /\ now = 0
    /\ codes = EmptyMap
    /\ sendCounts = EmptyMap
    /\ inflight = EmptyBag
    /\ resp = NoResponse
    /\ before = EmptyMap

NextPay ==
    \/ \E body \in CreateBodies, tx_ref \in GeneratedRefs :
           CreateTransaction(body, tx_ref) /\ UNCHANGED vars
    \/ \E body \in GatewayBodies : CreateTransactionFetch(body) /\ UNCHANGED vars
    \/ \E body \in BagToSet(fetching), data \in GatewayData :
           FetchResolves(body, data) /\ UNCHANGED vars
    \/ \E body \in BagToSet(fetching) : FetchRejects(body) /\ UNCHANGED vars
    \/ \E tx_ref \in TxRefInputs, status \in StatusInputs :
           ConfirmTransaction(tx_ref, status) /\ UNCHANGED vars

SpecPay == InitPay /\ [][NextPay]_payVars

(* ------------------------------- claims -------------------------------- *)

ValidEmails == {e \in EmailInputs : e # "" /\ isEmail(e)}

\* Code inputs that pass the presence check of verify-code.
PresentCodes == {c \in CodeInputs : ~Falsy(c)}

\* The entry of email is stored and now is before its expiresAt.
Pending(email) == Has(codes, email) /\ now < codes[email].expiresAt

Succeeds(response) == response.status = 200

\* The store is what the latest admitted request found, plus that
\* request's own write.
OnlyWrote(req) ==
    /\ before # Untracked
    /\ Has(codes, req.email)
    /\ codes[req.email].code = req.code
    /\ codes = MapSet(before, req.email, codes[req.email])

\* C1: when the dispatch of a send-code request fails (the request being
\* the only one in flight, and nothing else having written the store since
\* it arrived), the Code Store is exactly what it was before the request:
\* no entry has been created and a prior entry is still stored unchanged.
C1_FailedDispatchLeavesStore ==
    [][\A req \in BagToSet(inflight) :
          (SendMailFail(req) /\ inflight = SetToBag({req}) /\ OnlyWrote(req))
              => codes' = before]_vars

\* Timestamps of arr inside the 60-minute window that ends at instant t.
InWindow(arr, t) ==
    {i \in 1..Len(arr) : arr[i] > t - 60 * 60 * 1000 /\ arr[i] <= t}

\* C2: under any interleaving of send-code requests for one email, the
\* sends recorded for it within any trailing 60-minute window never number
\* more than RATE_LIMIT_PER_HOUR + 1.
C2_OvershootAtMostOne ==
    \A email \in DOMAIN sendCounts : \A t \in Instants :
        Cardinality(InWindow(sendCounts[email], t)) <= RATE_LIMIT_PER_HOUR + 1

\* C3: a verify-code with the stored code at any time now >= expiresAt
\* (the instant now = expiresAt included) never succeeds: it answers
\* "Code expired" and the entry is deleted.
C3_ExpiredNeverVerifies ==
    [][\A email \in ValidEmails : \A code \in PresentCodes :
          (/\ VerifyCode(email, code)
           /\ Has(codes, email)
           /\ now >= codes[email].expiresAt
           /\ Trim(String(code)) = codes[email].code)
              => /\ ~Succeeds(resp')
                 /\ resp'.body = "Code expired"
                 /\ ~Has(codes', email)]_vars

\* C4: a verify-code with the stored code before expiry succeeds and
\* deletes the entry; a verify-code for an email without an entry answers
\* "No code found or code expired" and changes nothing; and an entry
\* appears for an email only when a send-code request is admitted.  So the
\* code verifies exactly once unless a new send comes in between.
C4_VerifiesExactlyOnce ==
    [][\A email \in ValidEmails :
          /\ \A code \in PresentCodes :
                VerifyCode(email, code) =>
                    /\ (Pending(email) /\ Trim(String(code)) = codes[email].code)
                          => (Succeeds(resp') /\ ~Has(codes', email))
                    /\ ~Has(codes, email)
                          => /\ resp'.body = "No code found or code expired"
                             /\ resp'.status = 400
                             /\ codes' = codes
          /\ (~Has(codes, email) /\ Has(codes', email))
                => BagCardinality(inflight') = BagCardinality(inflight) + 1
      ]_vars

C4_Witness ==
    /\ resp = Response("verify", 200, "Email verified")
    /\ ~Has(codes, "a@b.com")
    /\ inflight = EmptyBag
    /\ Has(sendCounts, "a@b.com")

Recorded(sc, email) == IF Has(sc, email) THEN Len(sc[email]) ELSE 0

\* C5: a failed dispatch leaves sendCounts unchanged, so canSend answers
\* after the failure what it answered before; and a timestamp is added to
\* a record only by the step in which sendMail resolved.
C5_FailureKeepsBudget ==
    [][/\ \A req \in BagToSet(inflight) :
             SendMailFail(req) =>
                 /\ sendCounts' = sendCounts
                 /\ canSend(req.email)' = canSend(req.email)
       /\ \A email \in ValidEmails :
             Recorded(sendCounts', email) > Recorded(sendCounts, email)
                 => /\ \E req \in BagToSet(inflight) : SendMailOk(req)
                    /\ resp' = Response("send", 200, "Verification email sent")
      ]_vars

C5_Witness ==
    /\ resp = Response("send", 500, "Failed to send code")
    /\ inflight = EmptyBag
    /\ sendCounts = EmptyMap
    /\ canSend("a@b.com")

Minutes(m) == m * 60 * 1000

\* The record of email already holds RATE_LIMIT_PER_HOUR timestamps of the
\* trailing 60 minutes: its RATE_LIMIT_PER_HOUR-th newest is that recent.
WindowFull(email) ==
    LET arr == IF Has(sendCounts, email) THEN sendCounts[email] ELSE <<>>
        n == Len(arr)
    IN  /\ n >= RATE_LIMIT_PER_HOUR
        /\ arr[n - RATE_LIMIT_PER_HOUR + 1] > now - Minutes(60)

\* C6: a send-code arriving when RATE_LIMIT_PER_HOUR sends are recorded
\* within the trailing 60 minutes is rejected with 429; one arriving when
\* the RATE_LIMIT_PER_HOUR-th newest recorded send is 60 minutes old or
\* more (or there are fewer) is admitted, and once its dispatch succeeds
\* it is answered 200 and its time is appended to the record.
C6_SlidingWindow ==
    [][/\ \A email \in ValidEmails : \A r \in RandomDraws :
             SendCode(email, r) =>
                 IF WindowFull(email)
                 THEN /\ resp'.status = 429
                      /\ inflight' = inflight
                 ELSE /\ inflight' = inflight
                            (+) SetToBag({Request(email, generateCode(r))})
                      /\ resp' = resp
       /\ \A req \in BagToSet(inflight) :
             SendMailOk(req) =>
                 /\ resp'.status = 200
                 /\ sendCounts'[req.email] =
                       Append(IF Has(sendCounts, req.email)
                              THEN sendCounts[req.email] ELSE <<>>, now)
      ]_vars

\* Sends recorded at minutes 0, 15 and 15; the oldest has left the window
\* at minute 61, where a further send was admitted and recorded.
C6_Witness ==
    /\ now = Minutes(61)
    /\ Has(sendCounts, "a@b.com")
    /\ sendCounts["a@b.com"] = <<0, Minutes(15), Minutes(15), Minutes(61)>>
    /\ resp = Response("send", 200, "Verification email sent")

\* C7: a verify-code against an unexpired entry with a code that differs
\* from the stored one after trimming answers "Invalid code" and leaves the
\* Code Store unchanged (so the stored code still verifies afterwards).
C7_WrongCodeKeepsEntry ==
    [][\A email \in ValidEmails : \A code \in PresentCodes :
          (/\ VerifyCode(email, code)
           /\ Pending(email)
           /\ Trim(String(code)) # codes[email].code)
              => /\ resp' = Response("verify", 400, "Invalid code")
                 /\ codes' = codes
                 /\ \A c \in PresentCodes :
                       c = Str(codes[email].code)
                           => Succeeds(VerifyResponse(email, c)')
      ]_vars

C7_Witness ==
    /\ resp = Response("verify", 400, "Invalid code")
    /\ Pending("a@b.com")
    /\ Succeeds(VerifyResponse("a@b.com", Str(codes["a@b.com"].code)))

\* The entry a send-code admitted now with draw r stores.
Issued(r) ==
    [code |-> generateCode(r), expiresAt |-> now + CODE_TTL_MINUTES * 60 * 1000]

\* C8 as stated: after a re-issue for an email with a Pending entry, a
\* verify-code with the old code does not succeed, only the newest code
\* verifies, and the expiry is the re-issue time plus the TTL.
C8_OldCodeNeverVerifies ==
    [][\A email \in ValidEmails : \A r \in RandomDraws :
          (SendCode(email, r) /\ canSend(email) /\ Pending(email))
              => /\ \A c \in PresentCodes :
                       c = Str(codes[email].code)
                           => ~Succeeds(VerifyResponse(email, c)')
                 /\ codes'[email] = Issued(r)
                 /\ \A c \in PresentCodes :
                       Succeeds(VerifyResponse(email, c)')
                           <=> Trim(String(c)) = generateCode(r)
      ]_vars

\* C8 amended: after a re-issue the store holds exactly the newly generated
\* code with expiry = re-issue time + TTL, and a verify-code succeeds only
\* with that code: the old code no longer verifies unless the new code
\* happens to equal it.
C8_ReissueReplaces ==
    [][\A email \in ValidEmails : \A r \in RandomDraws :
          (SendCode(email, r) /\ canSend(email) /\ Pending(email))
              => /\ \A c \in PresentCodes :
                       (c = Str(codes[email].code)
                        /\ codes[email].code # generateCode(r))
                           => ~Succeeds(VerifyResponse(email, c)')
                 /\ codes'[email] = Issued(r)
                 /\ \A c \in PresentCodes :
                       Succeeds(VerifyResponse(email, c)')
                           <=> Trim(String(c)) = generateCode(r)
      ]_vars

\* A re-issue has just replaced a Pending entry by a different code.
C8_Witness ==
    /\ before # Untracked
    /\ Has(before, "a@b.com") /\ now < before["a@b.com"].expiresAt
    /\ Has(codes, "a@b.com")
    /\ codes["a@b.com"].code # before["a@b.com"].code
    /\ codes["a@b.com"].expiresAt = now + CODE_TTL_MINUTES * 60 * 1000
    /\ BagIn(Request("a@b.com", codes["a@b.com"].code), inflight)
    /\ ~Succeeds(VerifyResponse("a@b.com", Str(before["a@b.com"].code)))

\* C9: a send-code rejected by the rate limiter answers 429 and changes
\* neither the Code Store nor sendCounts; every verify-code is answered
\* after it as it would have been before.
C9_RejectionChangesNothing ==
    [][\A email \in ValidEmails : \A r \in RandomDraws :
          (SendCode(email, r) /\ ~canSend(email))
              => /\ resp'.status = 429
                 /\ codes' = codes
                 /\ sendCounts' = sendCounts
                 /\ inflight' = inflight
                 /\ \A c \in CodeInputs :
                       VerifyResponse(email, c)' = VerifyResponse(email, c)
      ]_vars

C9_Witness ==
    /\ resp.status = 429
    /\ Pending("a@b.com")
    /\ ~canSend("a@b.com")
    /\ Succeeds(VerifyResponse("a@b.com", Str(codes["a@b.com"].code)))

\* C10: a reaper sweep changes the outcome of no request that may follow
\* it: every verify-code succeeds after the sweep iff it would have
\* succeeded before it, and canSend answers the same.
C10_ReaperIsHousekeeping ==
    [][Cleanup =>
          \A email \in ValidEmails :
              /\ canSend(email)' = canSend(email)
              /\ \A c \in CodeInputs :
                    Succeeds(VerifyResponse(email, c)')
                        = Succeeds(VerifyResponse(email, c))
      ]_vars

\* The entry of email is stored and now is past its expiresAt.
Elapsed(email) == Has(codes, email) /\ now > codes[email].expiresAt

\* C11 as stated: a verify-code for an entry whose TTL has elapsed answers
\* "Code expired" and clears the entry, and this is so whether or not a
\* reaper sweep ran first: after a sweep over such an entry, the next
\* verify-code still answers "Code expired".
C11_ExpiredWithOrWithoutSweep ==
    [][\A email \in ValidEmails : \A code \in PresentCodes :
          /\ (Elapsed(email) /\ VerifyCode(email, code))
                => /\ resp' = Response("verify", 400, "Code expired")
                   /\ ~Has(codes', email)
          /\ (Elapsed(email) /\ Cleanup)
                => VerifyResponse(email, code)'
                      = Response("verify", 400, "Code expired")
      ]_vars

\* C11 amended: a verify-code for a stored entry whose TTL has elapsed
\* answers "Code expired" and clears the entry; a reaper sweep over such an
\* entry clears it as well, and the next verify-code then answers
\* "No code found or code expired".  Either way the attempt fails with 400
\* and the email has no entry after it.
C11_ExpiredOrSwept ==
    [][\A email \in ValidEmails : \A code \in PresentCodes :
          /\ (Elapsed(email) /\ VerifyCode(email, code))
                => /\ resp' = Response("verify", 400, "Code expired")
                   /\ ~Has(codes', email)
          /\ (Elapsed(email) /\ Cleanup)
                => /\ ~Has(codes', email)
                   /\ VerifyResponse(email, code)'
                         = Response("verify", 400,
                                    "No code found or code expired")
      ]_vars

\* A verify-code has answered "Code expired" and the entry is gone, while
\* the send-code that issued it is still awaiting its dispatch.
C11_Witness ==
    /\ resp = Response("verify", 400, "Code expired")
    /\ ~Has(codes, "a@b.com")
    /\ inflight # EmptyBag
    /\ now > 0

\* The responses of send-code; none has a field for the code.
SendResponses ==
    {Response("send", 400, "Valid email required"),
     Response("send", 429, "Rate limit: max 3 codes per hour"),
     Response("send", 500, "Failed to send code"),
     Response("send", 200, "Verification email sent")}

RecentCount(email) ==
    IF Has(sendCounts, email)
    THEN Cardinality({i \in 1..Len(sendCounts[email]) :
                         sendCounts[email][i] > now - Minutes(60)})
    ELSE 0

\* C13: canSend(email) is true iff fewer than RATE_LIMIT_PER_HOUR recorded
\* timestamps t of the email have t > now - 60 minutes (one exactly 60
\* minutes old does not count), and the send-code step that calls canSend
\* leaves sendCounts as it was.
C13_CanSendCountsWindow ==
    [][/\ \A email \in ValidEmails :
             /\ canSend(email) <=> RecentCount(email) < RATE_LIMIT_PER_HOUR
             /\ canSend(email)' <=> RecentCount(email)' < RATE_LIMIT_PER_HOUR
       /\ \A email \in EmailInputs : \A r \in RandomDraws :
             SendCode(email, r) => sendCounts' = sendCounts
      ]_vars

\* Three sends recorded at minute 0 are exactly 60 minutes old: none of
\* them counts and canSend is true again.
C13_Witness ==
    /\ now = Minutes(60)
    /\ Has(sendCounts, "a@b.com")
    /\ sendCounts["a@b.com"] = <<0, 0, 0>>
    /\ canSend("a@b.com")
    /\ resp = Response("send", 429, "Rate limit: max 3 codes per hour")

\* Every timestamp of the record is within the 60 minutes before t.
AllRecent(arr, t) == \A i \in 1..Len(arr) : arr[i] > t - Minutes(60)

NoEmptyRecord(sc) == \A email \in DOMAIN sc : sc[email] # <<>>

\* C14 as stated: in every reachable state each record holds only
\* timestamps within the trailing hour, and no record is empty.
C14_OnlyRecentRetained ==
    /\ NoEmptyRecord(sendCounts)
    /\ \A email \in DOMAIN sendCounts : AllRecent(sendCounts[email], now)

\* C14 amended: in every reachable state no email is mapped to an empty
\* timestamp sequence, and right after a reaper sweep each record holds
\* only timestamps within the trailing hour (between sweeps a record may
\* still hold older ones).
C14_NoEmptyAndSweptRecent ==
    [][/\ NoEmptyRecord(sendCounts)
       /\ NoEmptyRecord(sendCounts')
       /\ Cleanup =>
             \A email \in DOMAIN sendCounts' :
                 AllRecent(sendCounts'[email], now)
      ]_vars

\* A sweep has removed the record of a send answered 200: the email has
\* no record rather than an empty one.
C14_Witness ==
    /\ resp = Response("send", 200, "Verification email sent")
    /\ ~Has(sendCounts, "a@b.com")
    /\ now >= Minutes(60)

VerifyFailureMessages ==
    {"Email and code required", "No code found or code expired",
     "Code expired", "Invalid code"}

Trailing(email) == SelectSeq(sendCounts[email], LAMBDA t : t > now - Minutes(60))

\* C16: right after a reaper sweep at time now, no Code Store entry with
\* expiresAt <= now remains and every entry with expiresAt > now is as it
\* was; every Rate Limiter record holds exactly its previous timestamps
\* t > now - 60 minutes in the same order, records that would be empty are
\* gone, and nothing was added to either map.
C16_SweepPostcondition ==
    [][Cleanup =>
          /\ \A e \in DOMAIN codes' : codes'[e].expiresAt > now
          /\ \A e \in DOMAIN codes :
                 codes[e].expiresAt > now => Has(codes', e) /\ codes'[e] = codes[e]
          /\ DOMAIN codes' \subseteq DOMAIN codes
          /\ DOMAIN sendCounts' \subseteq DOMAIN sendCounts
          /\ \A e \in DOMAIN sendCounts :
                 IF Trailing(e) = <<>>
                 THEN ~Has(sendCounts', e)
                 ELSE Has(sendCounts', e) /\ sendCounts'[e] = Trailing(e)
      ]_vars

\* A sweep ran at the very instant an entry expired, while the handler
\* that wrote it was still awaiting its dispatch.
C16_Witness ==
    /\ now = Minutes(15)
    /\ ~Has(codes, "a@b.com")
    /\ inflight # EmptyBag
    /\ resp = NoResponse

\* C17: in the payment service, confirm-transaction never adds or removes
\* a key of transactions: for an unknown tx_ref the object is unchanged and
\* the answer is still success, for a known one only that record's status
\* becomes the submitted value; a record is written only by
\* create-transaction, with status "pending", and in the gateway variant
\* only when the gateway answered with status "success".
C17_ConfirmFrameCreateOnly ==
    [][/\ \A tx_ref \in TxRefInputs \ {""}, status \in StatusInputs \ {""} :
              ConfirmTransaction(tx_ref, status) =>
                  /\ DOMAIN transactions' = DOMAIN transactions
                  /\ payResp' = Response("confirm", 200, [success |-> TRUE])
                  /\ \A k \in DOMAIN transactions :
                         k # tx_ref => transactions'[k] = transactions[k]
                  /\ Has(transactions, tx_ref) =>
                         /\ transactions'[tx_ref].status = status
                         /\ \A f \in DOMAIN transactions[tx_ref] \ {"status"} :
                                transactions'[tx_ref][f] = transactions[tx_ref][f]
       /\ (\E tx_ref \in TxRefInputs, status \in StatusInputs :
              ConfirmTransaction(tx_ref, status))
              => DOMAIN transactions' = DOMAIN transactions
       /\ DOMAIN transactions \subseteq DOMAIN transactions'
       /\ \A k \in DOMAIN transactions' :
              \/ Has(transactions, k) /\ transactions'[k] = transactions[k]
              \/ /\ Has(transactions, k)
                 /\ \E status \in StatusInputs : ConfirmTransaction(k, status)
              \/ /\ transactions'[k].status = "pending"
                 /\ IF variant = "memory"
                    THEN \E body \in CreateBodies : CreateTransaction(body, k)
                    ELSE \E body \in BagToSet(fetching), data \in GatewayData :
                            /\ body.tx_ref = k
                            /\ data.status = "success"
                            /\ FetchResolves(body, data)
      ]_payVars

\* The gateway variant holds one record, confirmed as successful: the
\* confirmation was answered last, while a create awaits the gateway.
C17_Witness ==
    /\ variant = "gateway"
    /\ DOMAIN transactions = {"TX-0-1"}
    /\ transactions["TX-0-1"].status = "successful"
    /\ payResp = Response("confirm", 200, [success |-> TRUE])
    /\ fetching # EmptyBag

\* The step admits a send-code request for email: it passed the gate and
\* now awaits its dispatch.
Admits(email, r) ==
    /\ SendCode(email, r)
    /\ BagCardinality(inflight') = BagCardinality(inflight) + 1

\* C18: under any interleaving of concurrent send-code requests for one
\* email, the code held for the email is the one generated by the request
\* that most recently passed the rate-limit gate: a request writes its
\* code in the very step in which it passes the gate, and no completion or
\* failure of a dispatch, in whatever order, writes the Code Store, so an
\* entry is written or replaced by an admission only.
C18_StoreHoldsLatestAdmitted ==
    [][/\ \A email \in ValidEmails, r \in RandomDraws :
              Admits(email, r) =>
                  /\ Has(codes', email)
                  /\ codes'[email].code = generateCode(r)
                  /\ BagIn(Request(email, generateCode(r)), inflight')
       /\ \A req \in BagToSet(inflight) :
              SendMailOk(req) \/ SendMailFail(req) => codes' = codes
       /\ \A email \in DOMAIN codes' :
              ~Has(codes, email) \/ codes'[email] # codes[email]
                  => \E r \in RandomDraws : Admits(email, r)
      ]_vars

\* Two requests for one email overlapped; the later one's dispatch has
\* completed, the earlier one is still awaited, and the store holds the
\* later one's code.
C18_Witness ==
    /\ Has(codes, "a@b.com")
    /\ resp = Response("send", 200, "Verification email sent")
    /\ BagCardinality(inflight) = 1
    /\ \A req \in BagToSet(inflight) : req.code # codes["a@b.com"].code

LastInstant == Minutes(61)

\* Entries whose expiresAt the clock of the model reaches.
ExpiringEntries ==
    {v \in [code : GeneratedCodes,
            expiresAt : {t + Minutes(CODE_TTL_MINUTES) : t \in Instants}] :
        v.expiresAt <= LastInstant}

RECURSIVE Repeat(_, _)
Repeat(t, n) == IF n = 0 THEN <<>> ELSE <<t>> \o Repeat(t, n - 1)

\* Records whose newest timestamp leaves the trailing hour within the
\* clock of the model.
AgeingRecords ==
    {Repeat(t, n) : t \in {u \in Instants : u + Minutes(60) <= LastInstant},
                    n \in 1..MaxSends}

Holds(email, entry) == Has(codes, email) /\ codes[email] = entry

Keeps(email, record) == Has(sendCounts, email) /\ sendCounts[email] = record

\* C19: when the clock keeps advancing and the reaper keeps being run, an
\* entry of the Code Store does not stay forever: it is removed or replaced
\* by a new send, even if verify-code is never called for the email; and a
\* Rate Limiter record that receives no new send is eventually deleted.
C19_EventuallyReaped ==
    /\ \A email \in ValidEmails : \A entry \in ExpiringEntries :
           Holds(email, entry) ~> ~Holds(email, entry)
    /\ \A email \in ValidEmails : \A record \in AgeingRecords :
           Keeps(email, record) ~> ~Keeps(email, record)

\* An hour on, the store and the limiter are empty again although the last
\* thing the service answered was a successful send: nothing was verified.
C19_Witness ==
    /\ now >= Minutes(60)
    /\ codes = EmptyMap
    /\ sendCounts = EmptyMap
    /\ inflight = EmptyBag
    /\ resp = Response("send", 200, "Verification email sent")

====
